---- MODULE Spec2Model ----
(***************************************************************************)
(* State-machine model of the storefront client: the axios client with its *)
(* two interceptors, AuthProvider, OrderProvider, ReviewProvider and the   *)
(* pages Checkout, OrderManagement and ProductReviews.  The backend is the *)
(* environment: it answers every request with a success or with an error  *)
(* of status 401 or 500, in any order.                                     *)
(***************************************************************************)
EXTENDS Integers, Sequences, FiniteSets, TLC

VARIABLES
  authToken,        \* localStorage item 'authToken'
  pathname,         \* window.location.pathname
  navPending,       \* window.location.href was assigned; the page will reload
  tree,             \* the providers mounted under AuthProvider
  last401,          \* history: the last 401 response this page processed (<<>> if none)
  reqs,             \* requests in flight, in the order they were issued
  nreq,             \* number of requests issued so far
  srvOrders,        \* backend: the orders GET /orders answers with
  srvSellerOrders,  \* backend: the orders GET /orders/seller_orders answers with
  srvReviews,       \* backend: the reviews GET /reviews/user_reviews answers with
  user,             \* AuthProvider.user
  loggedOut,        \* history: the last change of user was made by logout
  orders,           \* OrderProvider.orders
  sellerOrders,     \* OrderProvider.sellerOrders
  sellerStats,      \* OrderProvider.sellerStats (<<>> is null)
  loading,          \* OrderProvider.loading
  error,            \* OrderProvider.error
  fetched,          \* history: the last orders response applied (<<>> if none)
  selectedOrder,    \* OrderManagement.selectedOrder: its id, the one field read (0 is null)
  updateData,       \* OrderManagement.updateData
  isUpdating,       \* OrderManagement.isUpdating
  dialogOrder,      \* id of the order whose Manage Order dialog is open, 0 if none
  toast,            \* title of the last toast shown, "" if none
  cart,             \* ProductProvider.cart
  step,             \* Checkout.step
  isProcessing,     \* Checkout.isProcessing
  formData,         \* Checkout.formData
  created,          \* history: outcome of the last ordersAPI.create, "" if none
  userReviews,      \* ReviewProvider.userReviews
  ctxReviews,       \* ReviewProvider.reviews
  revError,         \* ReviewProvider.error
  isReviewDialogOpen, \* ProductReviews.isReviewDialogOpen
  canReview,        \* ProductReviews.canReview
  reviewForm,       \* ProductReviews.reviewForm
  pReviews,         \* ProductReviews.reviews
  userName,         \* AuthProvider.user.name, "" while user is null
  authError,        \* AuthProvider.error
  profileForm,      \* Profile.formData: its name, the one field the model edits
  hasChanges,       \* Profile.hasChanges
  isSubmitting      \* Profile.isSubmitting

browserVars == <<authToken, pathname, navPending, tree, last401>>
httpVars    == <<reqs, nreq>>
srvVars     == <<srvOrders, srvSellerOrders, srvReviews>>
ordVars     == <<orders, sellerOrders, sellerStats, loading, error, fetched>>
omVars      == <<selectedOrder, updateData, isUpdating, dialogOrder>>
auVars      == <<user, loggedOut>>
coVars      == <<cart, step, isProcessing, formData, created>>
rpVars      == <<userReviews, ctxReviews, revError>>
prVars      == <<isReviewDialogOpen, canReview, reviewForm, pReviews>>
pfVars      == <<userName, authError, profileForm, hasChanges, isSubmitting>>

vars == <<authToken, pathname, navPending, tree, last401, reqs, nreq, srvOrders,
          srvSellerOrders, srvReviews, user, loggedOut, orders, sellerOrders,
          sellerStats, loading, error, fetched, selectedOrder, updateData, isUpdating,
          dialogOrder, toast, cart, step, isProcessing, formData, created,
          userReviews, ctxReviews, revError, isReviewDialogOpen, canReview,
          reviewForm, pReviews,
          userName, authError, profileForm, hasChanges, isSubmitting>>

----------------------------------------------------------------------------
\* Bounds of the model.
MaxReq      == 5   \* requests issued in one behaviour
MaxInFlight == 1   \* call chains of the pages that run at the same time
MaxPad      == 1   \* blanks before and after the text of a review comment

\* Values.
NoToken  == "null"
NoUser   == "null"
NoError  == "null"
Tokens   == {"t1", "t2"}
Users    == {"u1", "u2"}
AuthPaths == {"/signin", "/signup"}
OrderIds == {1, 2}          \* ids of the orders the backend holds
\* Routes of the pages; of the names only /signin and /signup are read by
\* the code.
OrdersPath   == "/orders"
ManagePath   == "/manage"
CheckoutPath == "/checkout"
ProductPath  == "/product"
ProfilePath  == "/profile"

Status == {"pending", "confirmed", "processing", "shipped", "delivered", "cancelled"}

Min(a, b) == IF a < b THEN a ELSE b
Max(a, b) == IF a > b THEN a ELSE b
Range(s)  == {s[i] : i \in DOMAIN s}

----------------------------------------------------------------------------
\* Initial values of the pages' forms.

ShippingFields == {"firstName", "lastName", "email", "address", "city", "state", "zipCode"}
PaymentFields  == {"cardNumber", "expiryDate", "cvv", "cardName"}

\* Checkout.formData as useState creates it without a signed-in user (the
\* optional fields phone, country and notes are read by no condition).
EmptyForm == [f \in ShippingFields \cup PaymentFields |-> ""]

\* ProductReviews.reviewForm as useState creates it; a comment is a sequence
\* of characters.
EmptyReview == [rating |-> 5, comment |-> <<>>]

\* The Checkout page is not mounted.
CheckoutUnused ==
  /\ cart = <<>>
  /\ step = 1
  /\ isProcessing = FALSE
  /\ formData = EmptyForm
  /\ created = ""

\* The Profile page is not mounted and no profile was edited.
ProfileUnused ==
  /\ userName = ""
  /\ authError = NoError
  /\ profileForm = ""
  /\ hasChanges = FALSE
  /\ isSubmitting = FALSE

\* The ProductReviews component is not mounted and no review was fetched.
ReviewsUnused ==
  /\ userReviews = <<>>
  /\ ctxReviews = <<>>
  /\ revError = NoError
  /\ isReviewDialogOpen = FALSE
  /\ canReview = FALSE
  /\ reviewForm = EmptyReview
  /\ pReviews = <<>>

----------------------------------------------------------------------------
\* Array helpers with JavaScript's semantics (0-based indices).

\* Array.prototype.indexOf: the first index of x, -1 when absent.
IndexOf(s, x) ==
  IF \E i \in DOMAIN s : s[i] = x
    THEN (CHOOSE i \in DOMAIN s : s[i] = x /\ \A j \in 1..(i-1) : s[j] # x) - 1
    ELSE -1

\* Array.prototype.slice(start): a negative start counts from the end.
Slice(s, start) ==
  LET k == IF start < 0 THEN Max(Len(s) + start, 0) ELSE Min(start, Len(s))
  IN  SubSeq(s, k + 1, Len(s))

\* The status the list holds for order oid, "" if absent.
StatusOf(list, oid) ==
  IF \E j \in DOMAIN list : list[j].id = oid
    THEN list[CHOOSE j \in DOMAIN list : list[j].id = oid].status
    ELSE ""

\* Array.prototype.map over a sequence.
Map(s, F(_)) == [i \in DOMAIN s |-> F(s[i])]

\* OrderManagement: the fixed sequence of statuses.
statusFlow == <<"pending", "confirmed", "processing", "shipped", "delivered">>

\* statusFlow.indexOf(status)
FlowIndex(status) == IndexOf(statusFlow, status)

\* OrderManagement.getStatusOptions
getStatusOptions(currentStatus) ==
  LET currentIndex == FlowIndex(currentStatus)
      availableStatuses == Slice(statusFlow, currentIndex) \o <<"cancelled">>
  IN  SelectSeq(availableStatuses, LAMBDA status : status # currentStatus)

----------------------------------------------------------------------------
\* The axios client.

\* A request interceptor that writes the header whether or not a token is
\* stored.
RequestInterceptorAlways(token) == <<"Bearer", token>>

\* Request interceptor: the Authorization header of a request sent now.
RequestInterceptor(token) ==
  IF token # NoToken THEN <<"Bearer", token>> ELSE <<>>

\* api.get / api.post / api.put / api.delete: a request as it leaves the
\* client.  k names the caller that awaits the response, cu is the user that
\* caller's closure captured, oid and status are the request's arguments.
NewRequest(token, id, api, k, oid, status, cu) ==
  [id |-> id, api |-> api, k |-> k, oid |-> oid, status |-> status, cu |-> cu,
   hdr |-> RequestInterceptor(token),
   stored |-> token,                      \* history: the token stored at send
   cur |-> StatusOf(sellerOrders, oid),   \* history: the order's status at send
   st |-> "sent", code |-> 0, data |-> <<>>]

Push(token, rs, id, api, k, oid, status, cu) ==
  Append(rs, NewRequest(token, id, api, k, oid, status, cu))

\* The requests without the one at position i (its response was consumed).
Without(i) == [j \in 1..(Len(reqs) - 1) |-> IF j < i THEN reqs[j] ELSE reqs[j + 1]]

Answered(i, k) == /\ ~navPending
                  /\ i \in DOMAIN reqs
                  /\ reqs[i].k = k
                  /\ reqs[i].st # "sent"

Failed401(r) == r.st = "err" /\ r.code = 401

\* Response interceptor: on 401 the token is removed and, outside the two
\* auth pages, window.location.href is set to /signin.
\* A response interceptor that redirects on every 401, whatever the page.
RedirectedEverywhere(r) == Failed401(r)

\* The response interceptor assigns window.location.href.
Redirected(r) == Failed401(r) /\ pathname \notin AuthPaths

\* The response interceptor followed by a caller that leaves stored in local
\* storage.
Intercepted(r, stored) ==
  /\ authToken' = stored
  /\ navPending' = (navPending \/ Redirected(r))
  /\ last401' = IF Failed401(r)
                  THEN <<[k |-> r.k, path |-> pathname, token |-> stored,
                          nav |-> navPending']>>
                  ELSE last401
  /\ UNCHANGED <<pathname, tree>>

\* The token left in local storage by the response interceptor.
TokenAfter(r) == IF Failed401(r) THEN NoToken ELSE authToken

ResponseInterceptor(r) == Intercepted(r, TokenAfter(r))

\* The page reloads at /signin after the response interceptor assigned
\* window.location.href: every provider and page starts over, and the
\* responses of the old page's requests are never delivered.
PageLoad ==
  /\ navPending
  /\ pathname' = "/signin"
  /\ navPending' = FALSE
  /\ last401' = <<>>
  /\ reqs' = <<>>
  /\ user' = NoUser
  /\ loggedOut' = FALSE
  /\ fetched' = <<>>
  /\ orders' = <<>>
  /\ sellerOrders' = <<>>
  /\ sellerStats' = <<>>
  /\ loading' = TRUE
  /\ error' = NoError
  /\ selectedOrder' = 0
  /\ updateData' = [status |-> ""]
  /\ isUpdating' = FALSE
  /\ dialogOrder' = 0
  /\ toast' = ""
  /\ step' = 1
  /\ isProcessing' = FALSE
  /\ formData' = EmptyForm
  /\ created' = ""
  /\ userReviews' = <<>>
  /\ ctxReviews' = <<>>
  /\ revError' = NoError
  /\ isReviewDialogOpen' = FALSE
  /\ canReview' = FALSE
  /\ reviewForm' = EmptyReview
  /\ pReviews' = <<>>
  /\ userName' = ""
  /\ authError' = NoError
  /\ profileForm' = ""
  /\ hasChanges' = FALSE
  /\ isSubmitting' = FALSE
  /\ UNCHANGED <<authToken, tree, nreq, srvVars, cart>>

----------------------------------------------------------------------------
\* The backend (environment).

\* The token the backend issues to a user who signs in, and the user a
\* token stands for.
TokenOf(u) == IF u = "u1" THEN "t1" ELSE "t2"
UserOf(t)  == IF t = "t1" THEN "u1" ELSE "u2"

SetStatus(list, oid, status) ==
  Map(list, LAMBDA o : IF o.id = oid THEN [o EXCEPT !.status = status] ELSE o)

\* What the backend answers to request r when it accepts it.
ServerData(r) ==
  CASE r.api = "orders.getAll"          -> srvOrders
    [] r.api = "orders.getSellerOrders" -> srvSellerOrders
    [] r.api = "orders.getSellerStats"  -> <<Len(srvSellerOrders)>>
    [] r.api = "orders.update" ->
         SelectSeq(SetStatus(srvSellerOrders \o srvOrders, r.oid, r.status),
                   LAMBDA o : o.id = r.oid)
    [] r.api \in {"auth.signIn", "auth.signUp"} ->
         <<[token |-> TokenOf(r.cred), user |-> r.cred]>>
    [] r.api = "reviews.getUserReviews" ->
         SelectSeq(srvReviews, LAMBDA v : v.user = UserOf(r.hdr[2]))
    [] r.api = "reviews.getByProduct" ->
         SelectSeq(srvReviews, LAMBDA v : v.product = r.oid)
    [] r.api = "reviews.create" ->
         <<[id |-> Len(srvReviews) + 1, user |-> UserOf(r.hdr[2]), product |-> r.oid]>>
    [] r.api = "auth.getCurrentUser" -> <<[user |-> UserOf(r.hdr[2])]>>
    [] r.api = "auth.updateProfile" ->
         <<[user |-> UserOf(r.hdr[2]), name |-> r.profile]>>
    [] r.api = "orders.create" ->
         <<[id |-> Len(srvOrders) + Len(srvSellerOrders) + 1, status |-> "pending"]>>
    [] OTHER -> <<>>

\* The backend's order lists once it has accepted request r.
ServerOrders(r) ==
  CASE r.api = "orders.update" -> SetStatus(srvOrders, r.oid, r.status)
    [] r.api = "orders.create" -> ServerData(r) \o srvOrders
    [] OTHER -> srvOrders

ServerSellerOrders(r) ==
  IF r.api = "orders.update"
    THEN SetStatus(srvSellerOrders, r.oid, r.status)
    ELSE srvSellerOrders

\* The backend's reviews once it has accepted request r.
ServerReviews(r) ==
  IF r.api = "reviews.create" THEN ServerData(r) \o srvReviews ELSE srvReviews

\* Every endpoint but sign-in and sign-up wants a bearer token.
Protected(a) == a \notin {"auth.signIn", "auth.signUp"}

\* The backend accepts the request at position i and answers it.
ServerOk(i) ==
  /\ ~navPending
  /\ i \in DOMAIN reqs
  /\ reqs[i].st = "sent"
  /\ Protected(reqs[i].api) => reqs[i].hdr # <<>>
  /\ reqs' = [reqs EXCEPT ![i] = [@ EXCEPT !.st = "ok", !.code = 200,
                                            !.data = ServerData(reqs[i])]]
  /\ srvOrders' = ServerOrders(reqs[i])
  /\ srvSellerOrders' = ServerSellerOrders(reqs[i])
  /\ srvReviews' = ServerReviews(reqs[i])
  /\ UNCHANGED <<browserVars, nreq, auVars, ordVars, omVars, toast, coVars, rpVars, prVars>>
  /\ UNCHANGED pfVars

\* The backend, or the network, fails the request with 401 or 500.
ServerErr(i, code) ==
  /\ ~navPending
  /\ i \in DOMAIN reqs
  /\ reqs[i].st = "sent"
  /\ reqs' = [reqs EXCEPT ![i] = [@ EXCEPT !.st = "err", !.code = code]]
  /\ UNCHANGED <<browserVars, nreq, srvVars, auVars, ordVars, omVars, toast, coVars, rpVars, prVars>>
  /\ UNCHANGED pfVars

----------------------------------------------------------------------------
\* OrderProvider.

ErrOrders       == "Failed to load orders. Please try again."
ErrSellerOrders == "Failed to load seller orders. Please try again."
ErrSellerStats  == "Failed to load seller statistics. Please try again."
ErrUpdate       == "Failed to update order status. Please try again."
ErrCreate       == "Failed to create order. Please try again."

\* Catch blocks that set the error message whatever the failure.
FetchErrorAlways(r, msg, old) == IF r.st = "err" THEN msg ELSE old

\* The catch blocks of the three fetches: a 401 sets no error message.
FetchError(r, msg, old) == IF r.st = "err" /\ r.code # 401 THEN msg ELSE old

\* A fetchOrders that drops the response to a request older than the one
\* whose response was applied last.
FetchedOrdersInOrder(r, prev) ==
  IF r.st = "ok" /\ (fetched = <<>> \/ fetched[1].id < r.id) THEN r.data ELSE prev

\* fetchOrders: setOrders(response.data) in the try block, whatever request
\* the response belongs to.
FetchedOrders(r, prev) == IF r.st = "ok" THEN r.data ELSE prev

\* A fetchSellerOrders that puts the response in front of what the list held.
FetchedSellerOrdersAppended(r, prev) == IF r.st = "ok" THEN r.data \o prev ELSE prev

\* fetchSellerOrders: setSellerOrders(response.data) in the try block.
FetchedSellerOrders(r, prev) == IF r.st = "ok" THEN r.data ELSE prev

\* The record of an orders response that was applied: the request's number,
\* the data, and whether a response to a younger request was applied before.
Applied(r) ==
  IF r.st = "ok"
    THEN <<[id |-> r.id, data |-> r.data, prev |-> orders,
            stale |-> fetched # <<>> /\ fetched[1].id > r.id]>>
    ELSE fetched

\* updateOrderStatus: prev.map(order => order.id === orderId ? updatedOrder : order)
ReplaceOrder(prev, oid, updatedOrder) ==
  Map(prev, LAMBDA order : IF order.id = oid THEN updatedOrder ELSE order)

\* The Manage Order dialogs live in the order list, which OrderManagement
\* renders only while the provider is neither loading nor in error.
DialogAfter == IF loading' \/ error' # NoError THEN 0 ELSE dialogOrder

\* refreshOrders, first step: fetchOrders() up to its await.  The closure's
\* user is the signed-in user, so the request is issued.
RefreshOrders ==
  /\ pathname \in {OrdersPath, ManagePath}
  /\ ~navPending
  /\ user # NoUser
  /\ ~loading
  /\ dialogOrder = 0
  /\ nreq + 3 <= MaxReq
  /\ Len(reqs) < MaxInFlight
  /\ loading' = TRUE
  /\ error' = NoError
  /\ reqs' = Push(authToken, reqs, nreq + 1, "orders.getAll", "refresh.orders", 0, "", user)
  /\ nreq' = nreq + 1
  /\ UNCHANGED <<browserVars, srvVars, auVars, orders, sellerOrders, sellerStats,
                 fetched, omVars, toast, coVars, rpVars, prVars>>
  /\ UNCHANGED pfVars

\* refreshOrders: fetchOrders() resumes with its response, then
\* fetchSellerOrders() runs up to its await.
RefreshOrdersResponse(i) ==
  /\ Answered(i, "refresh.orders")
  /\ LET r == reqs[i] IN
       /\ ResponseInterceptor(r)
       /\ orders' = FetchedOrders(r, orders)
       /\ fetched' = Applied(r)
       /\ error' = FetchError(r, ErrOrders, error)
       /\ loading' = FALSE
       /\ reqs' = Push(authToken', Without(i), nreq + 1, "orders.getSellerOrders",
                       "refresh.sellerOrders", 0, "", r.cu)
       /\ nreq' = nreq + 1
       /\ dialogOrder' = DialogAfter
  /\ UNCHANGED <<srvVars, auVars, sellerOrders, sellerStats, selectedOrder,
                 updateData, isUpdating, toast, coVars, rpVars, prVars>>
  /\ UNCHANGED pfVars

\* refreshOrders: fetchSellerOrders() resumes, then fetchSellerStats() runs
\* up to its await.
RefreshSellerOrdersResponse(i) ==
  /\ Answered(i, "refresh.sellerOrders")
  /\ LET r == reqs[i] IN
       /\ ResponseInterceptor(r)
       /\ sellerOrders' = FetchedSellerOrders(r, sellerOrders)
       /\ error' = FetchError(r, ErrSellerOrders, error)
       /\ reqs' = Push(authToken', Without(i), nreq + 1, "orders.getSellerStats",
                       "refresh.stats", 0, "", r.cu)
       /\ nreq' = nreq + 1
       /\ UNCHANGED loading
       /\ dialogOrder' = DialogAfter
  /\ UNCHANGED <<srvVars, auVars, orders, sellerStats, fetched, selectedOrder,
                 updateData, isUpdating, toast, coVars, rpVars, prVars>>
  /\ UNCHANGED pfVars

\* refreshOrders: fetchSellerStats() resumes; the chain ends.
RefreshStatsResponse(i) ==
  /\ Answered(i, "refresh.stats")
  /\ LET r == reqs[i] IN
       /\ ResponseInterceptor(r)
       /\ sellerStats' = IF r.st = "ok" THEN r.data ELSE sellerStats
       /\ error' = FetchError(r, ErrSellerStats, error)
       /\ reqs' = Without(i)
       /\ UNCHANGED <<nreq, loading>>
       /\ dialogOrder' = DialogAfter
  /\ UNCHANGED <<srvVars, auVars, orders, sellerOrders, fetched, selectedOrder,
                 updateData, isUpdating, toast, coVars, rpVars, prVars>>
  /\ UNCHANGED pfVars

----------------------------------------------------------------------------
\* AuthProvider, and the effects that depend on user.

\* The requests the effects with dependency [user] issue once user has
\* changed to u: the page's effect first (Orders and OrderManagement call
\* refreshOrders()), then OrderProvider's three fetches, then
\* ReviewProvider's fetchUserReviews.
EffectCalls(u) ==
  IF u = NoUser THEN <<>>
  ELSE (IF "OrderProvider" \in tree /\ pathname \in {OrdersPath, ManagePath}
          THEN <<[api |-> "orders.getAll", k |-> "refresh.orders"]>> ELSE <<>>)
       \o (IF "OrderProvider" \in tree
          THEN <<[api |-> "orders.getAll", k |-> "orders"],
                 [api |-> "orders.getSellerOrders", k |-> "sellerOrders"],
                 [api |-> "orders.getSellerStats", k |-> "stats"]>> ELSE <<>>)
       \o (IF "ReviewProvider" \in tree
          THEN <<[api |-> "reviews.getUserReviews", k |-> "userReviews"]>> ELSE <<>>)

\* Requests a sign-in leads to: its own, the effects', and the two further
\* fetches of a refreshOrders() chain.
SignInCost ==
  1 + Len(EffectCalls("u1"))
    + (IF "OrderProvider" \in tree /\ pathname \in {OrdersPath, ManagePath} THEN 2 ELSE 0)

\* setUser(u) followed by the effects of the next render; rs are the
\* requests left in flight and token is the stored token by then.
SetUser(rs, token, u) ==
  LET calls == EffectCalls(u) IN
    /\ user' = u
    /\ reqs' = rs \o [n \in 1..Len(calls) |->
                       NewRequest(token, nreq + n, calls[n].api, calls[n].k, 0, "", u)]
    /\ nreq' = nreq + Len(calls)
    /\ loading' = IF u # NoUser /\ "OrderProvider" \in tree THEN TRUE ELSE loading
    /\ error' = IF u # NoUser /\ "OrderProvider" \in tree THEN NoError ELSE error
    /\ userReviews' = IF u = NoUser /\ "ReviewProvider" \in tree THEN <<>> ELSE userReviews
    /\ dialogOrder' = DialogAfter

\* The mount effect of AuthProvider: checkAuth up to its await.  With a
\* stored token the request to /auth/me is in flight; without one nothing is.
CheckAuthRequests(token) ==
  IF token # NoToken
    THEN <<NewRequest(token, 1, "auth.getCurrentUser", "auth.check", 0, "", NoUser)>>
    ELSE <<>>

\* checkAuth resumes: the user of the response is set, or the token is
\* removed and the user stays null.
CheckAuthResponse(i) ==
  /\ Answered(i, "auth.check")
  /\ LET r == reqs[i] IN
       /\ IF r.st = "ok"
            THEN /\ Intercepted(r, authToken)
                 /\ SetUser(Without(i), authToken, r.data[1].user)
            ELSE /\ Intercepted(r, NoToken)
                 /\ reqs' = Without(i)
                 /\ UNCHANGED <<user, nreq, loading, error, userReviews, dialogOrder>>
  /\ loggedOut' = FALSE
  /\ UNCHANGED <<srvVars, orders, sellerOrders, sellerStats,
                 fetched, selectedOrder, updateData, isUpdating, toast, coVars,
                 ctxReviews, revError, prVars>>
  /\ UNCHANGED pfVars

\* The sign-in form is submitted: login(email, password) up to its await.
Login(u) ==
  /\ pathname = "/signin"
  /\ ~navPending
  /\ nreq + SignInCost <= MaxReq
  /\ Len(reqs) < MaxInFlight
  /\ reqs' = Append(reqs, [cred |-> u] @@
               NewRequest(authToken, nreq + 1, "auth.signIn", "auth.login", 0, "", user))
  /\ nreq' = nreq + 1
  /\ UNCHANGED <<browserVars, srvVars, auVars, ordVars, omVars, toast, coVars,
                 rpVars, prVars>>
  /\ UNCHANGED pfVars

\* The sign-up form is submitted: register(userData) up to its await.
Register(u) ==
  /\ pathname = "/signup"
  /\ ~navPending
  /\ nreq + SignInCost <= MaxReq
  /\ Len(reqs) < MaxInFlight
  /\ reqs' = Append(reqs, [cred |-> u] @@
               NewRequest(authToken, nreq + 1, "auth.signUp", "auth.login", 0, "", user))
  /\ nreq' = nreq + 1
  /\ UNCHANGED <<browserVars, srvVars, auVars, ordVars, omVars, toast, coVars,
                 rpVars, prVars>>
  /\ UNCHANGED pfVars

\* login, or register, resumes: the token of the response is stored and the
\* user set, or the error is kept and false returned.
LoginResponse(i) ==
  /\ Answered(i, "auth.login")
  /\ LET r == reqs[i] IN
       /\ IF r.st = "ok"
            THEN /\ Intercepted(r, r.data[1].token)
                 /\ SetUser(Without(i), r.data[1].token, r.data[1].user)
                 /\ loggedOut' = FALSE
            ELSE /\ ResponseInterceptor(r)
                 /\ reqs' = Without(i)
                 /\ UNCHANGED <<user, loggedOut, nreq, loading, error, userReviews,
                                dialogOrder>>
  /\ UNCHANGED <<srvVars, orders, sellerOrders, sellerStats,
                 fetched, selectedOrder, updateData, isUpdating, toast, coVars,
                 ctxReviews, revError, prVars>>
  /\ UNCHANGED pfVars

\* logout up to its await.
Logout ==
  /\ user # NoUser
  /\ ~navPending
  /\ \A j \in DOMAIN reqs : reqs[j].k # "auth.logout"
  /\ reqs' = Push(authToken, reqs, nreq + 1, "auth.signOut", "auth.logout", 0, "", user)
  /\ nreq' = nreq + 1
  /\ UNCHANGED <<browserVars, srvVars, auVars, ordVars, omVars, toast, coVars,
                 rpVars, prVars>>
  /\ UNCHANGED pfVars

\* logout resumes; whatever the response, its finally block removes the
\* token and sets the user to null.
LogoutResponse(i) ==
  /\ Answered(i, "auth.logout")
  /\ LET r == reqs[i] IN
       /\ Intercepted(r, NoToken)
       /\ SetUser(Without(i), NoToken, NoUser)
  /\ loggedOut' = TRUE
  /\ UNCHANGED <<srvVars, orders, sellerOrders, sellerStats,
                 fetched, selectedOrder, updateData, isUpdating, toast, coVars,
                 ctxReviews, revError, prVars>>
  /\ UNCHANGED pfVars

\* The user follows a link of the application to another page (no reload).
Navigate(path) ==
  /\ ~navPending
  /\ path # pathname
  /\ reqs = <<>>
  /\ pathname' = path
  /\ UNCHANGED <<authToken, navPending, tree, last401, httpVars, srvVars, auVars, ordVars,
                 omVars, toast, coVars, rpVars, prVars>>
  /\ UNCHANGED pfVars

----------------------------------------------------------------------------
\* OrderProvider: the three fetches of its effect.

\* fetchOrders() of the effect resumes.
OrdersResponse(i) ==
  /\ Answered(i, "orders")
  /\ LET r == reqs[i] IN
       /\ ResponseInterceptor(r)
       /\ orders' = FetchedOrders(r, orders)
       /\ fetched' = Applied(r)
       /\ error' = FetchError(r, ErrOrders, error)
       /\ loading' = FALSE
       /\ reqs' = Without(i)
       /\ dialogOrder' = DialogAfter
  /\ UNCHANGED <<nreq, srvVars, auVars, sellerOrders, sellerStats, selectedOrder,
                 updateData, isUpdating, toast, coVars, rpVars, prVars>>
  /\ UNCHANGED pfVars

\* fetchSellerOrders() of the effect resumes.
SellerOrdersResponse(i) ==
  /\ Answered(i, "sellerOrders")
  /\ LET r == reqs[i] IN
       /\ ResponseInterceptor(r)
       /\ sellerOrders' = FetchedSellerOrders(r, sellerOrders)
       /\ error' = FetchError(r, ErrSellerOrders, error)
       /\ reqs' = Without(i)
       /\ UNCHANGED loading
       /\ dialogOrder' = DialogAfter
  /\ UNCHANGED <<nreq, srvVars, auVars, orders, sellerStats, fetched,
                 selectedOrder, updateData, isUpdating, toast, coVars, rpVars,
                 prVars>>
  /\ UNCHANGED pfVars

\* fetchSellerStats() of the effect resumes.
StatsResponse(i) ==
  /\ Answered(i, "stats")
  /\ LET r == reqs[i] IN
       /\ ResponseInterceptor(r)
       /\ sellerStats' = IF r.st = "ok" THEN r.data ELSE sellerStats
       /\ error' = FetchError(r, ErrSellerStats, error)
       /\ reqs' = Without(i)
       /\ UNCHANGED loading
       /\ dialogOrder' = DialogAfter
  /\ UNCHANGED <<nreq, srvVars, auVars, orders, sellerOrders, fetched,
                 selectedOrder, updateData, isUpdating, toast, coVars, rpVars,
                 prVars>>
  /\ UNCHANGED pfVars

\* Somebody else changes an order of the signed-in user at the backend: a
\* seller moves it to the next status of the sequence.
BackendChange(j) ==
  /\ ~navPending
  /\ j \in DOMAIN srvOrders
  /\ FlowIndex(srvOrders[j].status) \in 0..(Len(statusFlow) - 2)
  /\ srvOrders' = [srvOrders EXCEPT
                     ![j].status = statusFlow[FlowIndex(srvOrders[j].status) + 2]]
  /\ UNCHANGED <<browserVars, httpVars, srvSellerOrders, srvReviews, auVars,
                 ordVars, omVars, toast, coVars, rpVars, prVars>>
  /\ UNCHANGED pfVars

\* A browser opens the Orders page with a token of an earlier session in
\* local storage: the providers are mounted and checkAuth is in flight.
InitOrders ==
  /\ authToken = "t1"
  /\ pathname = OrdersPath
  /\ navPending = FALSE
  /\ last401 = <<>>
  /\ tree = {"OrderProvider"}
  /\ srvOrders = <<[id |-> 1, status |-> "shipped"]>>
  /\ srvSellerOrders = <<>>
  /\ srvReviews = <<>>
  /\ user = NoUser
  /\ loggedOut = FALSE
  /\ fetched = <<>>
  /\ orders = <<>>
  /\ sellerOrders = <<>>
  /\ sellerStats = <<>>
  /\ reqs = CheckAuthRequests(authToken)
  /\ nreq = Len(reqs)
  /\ loading = TRUE
  /\ error = NoError
  /\ selectedOrder = 0
  /\ updateData = [status |-> ""]
  /\ isUpdating = FALSE
  /\ dialogOrder = 0
  /\ toast = ""
  /\ CheckoutUnused
  /\ ReviewsUnused
  /\ ProfileUnused

NextOrders ==
  \/ \E i \in DOMAIN reqs : CheckAuthResponse(i)
  \/ Logout
  \/ \E i \in DOMAIN reqs : LogoutResponse(i)
  \/ \E i \in DOMAIN reqs : OrdersResponse(i)
  \/ \E i \in DOMAIN reqs : SellerOrdersResponse(i)
  \/ \E i \in DOMAIN reqs : StatsResponse(i)
  \/ \E i \in DOMAIN reqs : RefreshOrdersResponse(i)
  \/ \E i \in DOMAIN reqs : RefreshSellerOrdersResponse(i)
  \/ \E i \in DOMAIN reqs : RefreshStatsResponse(i)
  \/ \E j \in OrderIds : BackendChange(j)
  \/ \E i \in DOMAIN reqs : ServerOk(i)
  \/ \E i \in DOMAIN reqs, code \in {401, 500} : ServerErr(i, code)
  \/ PageLoad

SpecOrders == InitOrders /\ [][NextOrders]_vars

----------------------------------------------------------------------------
\* OrderManagement page.

\* The order list with its buttons is rendered (filters at their default 'all').
ListShown == pathname = ManagePath /\ ~navPending /\ ~loading /\ error = NoError

\* handleUpdateOrder up to its await, as the closure of one render sees the
\* state: sel and data are that render's selectedOrder and updateData.
UpdateRequest(rs, sel, data) ==
  Push(authToken, rs, nreq + 1, "orders.update", "om.update", sel, data.status, user)

\* Edit button of an order card: openUpdateDialog(order), and the dialog opens.
OpenUpdateDialog(j) ==
  /\ ListShown
  /\ dialogOrder = 0
  /\ j \in DOMAIN sellerOrders
  /\ selectedOrder' = sellerOrders[j].id
  /\ updateData' = [status |-> sellerOrders[j].status]
  /\ dialogOrder' = sellerOrders[j].id
  /\ UNCHANGED <<browserVars, httpVars, srvVars, auVars, ordVars, isUpdating, toast, coVars, rpVars, prVars>>
  /\ UNCHANGED pfVars

\* The Update Status select of the open dialog: one of the offered options.
SelectStatus(status) ==
  /\ ListShown
  /\ dialogOrder # 0
  /\ status \in Range(getStatusOptions(StatusOf(sellerOrders, dialogOrder)))
  /\ updateData' = [updateData EXCEPT !.status = status]
  /\ UNCHANGED <<browserVars, httpVars, srvVars, auVars, ordVars, selectedOrder,
                 isUpdating, dialogOrder, toast, coVars, rpVars, prVars>>
  /\ UNCHANGED pfVars

\* The dialog's Cancel button: setSelectedOrder(null); the dialog stays open.
CancelButton ==
  /\ ListShown
  /\ dialogOrder # 0
  /\ selectedOrder' = 0
  /\ UNCHANGED <<browserVars, httpVars, srvVars, auVars, ordVars, updateData,
                 isUpdating, dialogOrder, toast, coVars, rpVars, prVars>>
  /\ UNCHANGED pfVars

\* The dialog is dismissed (close button, Escape, click outside); no handler
\* of the page runs.
CloseDialog ==
  /\ ListShown
  /\ dialogOrder # 0
  /\ dialogOrder' = 0
  /\ UNCHANGED <<browserVars, httpVars, srvVars, auVars, ordVars, selectedOrder,
                 updateData, isUpdating, toast, coVars, rpVars, prVars>>
  /\ UNCHANGED pfVars

\* The dialog's Update Order button: handleUpdateOrder up to its await.
UpdateOrderButton ==
  /\ ListShown
  /\ dialogOrder # 0
  /\ ~isUpdating
  /\ selectedOrder # 0
  /\ nreq + 5 <= MaxReq
  /\ Len(reqs) < MaxInFlight
  /\ isUpdating' = TRUE
  /\ reqs' = UpdateRequest(reqs, selectedOrder, updateData)
  /\ nreq' = nreq + 1
  /\ UNCHANGED <<browserVars, srvVars, auVars, ordVars, selectedOrder,
                 updateData, dialogOrder, toast, coVars, rpVars, prVars>>
  /\ UNCHANGED pfVars

\* Quick action of an order card ('Confirm Order' on a pending order,
\* 'Start Processing' on a confirmed one): setSelectedOrder(order),
\* setUpdateData({...updateData, status}), handleUpdateOrder().  The handler
\* called is the one of the current render, so it reads the selectedOrder and
\* updateData from before the click.
QuickAction(j, status) ==
  /\ ListShown
  /\ dialogOrder = 0
  /\ j \in DOMAIN sellerOrders
  /\ \/ sellerOrders[j].status = "pending" /\ status = "confirmed"
     \/ sellerOrders[j].status = "confirmed" /\ status = "processing"
  /\ nreq + 5 <= MaxReq
  /\ Len(reqs) < MaxInFlight
  /\ selectedOrder' = sellerOrders[j].id
  /\ updateData' = [updateData EXCEPT !.status = status]
  /\ IF selectedOrder = 0
       THEN UNCHANGED <<httpVars, isUpdating>>
       ELSE /\ isUpdating' = TRUE
            /\ reqs' = UpdateRequest(reqs, selectedOrder, updateData)
            /\ nreq' = nreq + 1
  /\ UNCHANGED <<browserVars, srvVars, auVars, ordVars, dialogOrder, toast, coVars, rpVars, prVars>>
  /\ UNCHANGED pfVars

\* updateOrderStatus resumes with the response of ordersAPI.update.  On
\* success both lists are rewritten and fetchSellerStats() runs up to its
\* await; on failure the error is set and rethrown, and handleUpdateOrder's
\* catch and finally run.
UpdateResponse(i) ==
  /\ Answered(i, "om.update")
  /\ LET r == reqs[i] IN
       /\ ResponseInterceptor(r)
       /\ IF r.st = "ok"
            THEN /\ orders' = ReplaceOrder(orders, r.oid, r.data[1])
                 /\ sellerOrders' = ReplaceOrder(sellerOrders, r.oid, r.data[1])
                 /\ reqs' = Push(authToken', Without(i), nreq + 1, "orders.getSellerStats",
                                 "om.update.stats", 0, "", r.cu)
                 /\ nreq' = nreq + 1
                 /\ UNCHANGED <<error, isUpdating, toast, coVars, rpVars, prVars>>
            ELSE /\ error' = ErrUpdate
                 /\ toast' = "Update Failed"
                 /\ isUpdating' = FALSE
                 /\ reqs' = Without(i)
                 /\ UNCHANGED <<orders, sellerOrders, nreq>>
       /\ UNCHANGED loading
       /\ dialogOrder' = DialogAfter
  /\ UNCHANGED <<srvVars, auVars, sellerStats, fetched, selectedOrder,
                 updateData, coVars, rpVars, prVars>>
  /\ UNCHANGED pfVars

\* fetchSellerStats() of updateOrderStatus resumes; handleUpdateOrder then
\* shows its toast, clears selectedOrder, calls refreshOrders() (not awaited:
\* fetchOrders runs up to its await) and its finally runs.
UpdateStatsResponse(i) ==
  /\ Answered(i, "om.update.stats")
  /\ LET r == reqs[i] IN
       /\ ResponseInterceptor(r)
       /\ sellerStats' = IF r.st = "ok" THEN r.data ELSE sellerStats
       /\ toast' = "Order Updated"
       /\ selectedOrder' = 0
       /\ isUpdating' = FALSE
       /\ IF r.cu # NoUser
            THEN /\ loading' = TRUE
                 /\ error' = NoError
                 /\ reqs' = Push(authToken', Without(i), nreq + 1, "orders.getAll",
                                 "refresh.orders", 0, "", r.cu)
                 /\ nreq' = nreq + 1
            ELSE /\ loading' = FALSE
                 /\ error' = FetchError(r, ErrSellerStats, error)
                 /\ reqs' = Without(i)
                 /\ UNCHANGED nreq
       /\ dialogOrder' = DialogAfter
  /\ UNCHANGED <<srvVars, auVars, orders, sellerOrders, fetched, updateData,
                 coVars, rpVars, prVars>>
  /\ UNCHANGED pfVars

\* Orders of the seller as the backend may hold them: every status occurs.
OrderLists ==
  {<<[id |-> 1, status |-> a], [id |-> 2, status |-> b]>> :
     <<a, b>> \in {<<"pending", "confirmed">>, <<"cancelled", "shipped">>,
                   <<"delivered", "processing">>}}

\* OrderManagement as a signed-in seller sees it once the first load of the
\* provider has completed without error.
InitOM ==
  /\ authToken = "t1"
  /\ pathname = ManagePath
  /\ tree = {"OrderProvider"}
  /\ navPending = FALSE
  /\ last401 = <<>>
  /\ reqs = <<>>
  /\ nreq = 0
  /\ srvOrders = <<>>
  /\ srvSellerOrders \in OrderLists
  /\ srvReviews = <<>>
  /\ user = "u1"
  /\ loggedOut = FALSE
  /\ fetched = <<>>
  /\ orders = <<>>
  /\ sellerOrders = srvSellerOrders
  /\ sellerStats = <<Len(srvSellerOrders)>>
  /\ loading = FALSE
  /\ error = NoError
  /\ selectedOrder = 0
  /\ updateData = [status |-> ""]
  /\ isUpdating = FALSE
  /\ dialogOrder = 0
  /\ toast = ""
  /\ CheckoutUnused
  /\ ReviewsUnused
  /\ ProfileUnused

NextOM ==
  \/ \E j \in OrderIds : OpenUpdateDialog(j)
  \/ \E status \in Status : SelectStatus(status)
  \/ CancelButton
  \/ CloseDialog
  \/ UpdateOrderButton
  \/ \E j \in OrderIds, status \in Status : QuickAction(j, status)
  \/ RefreshOrders
  \/ \E i \in 1..MaxReq : ServerOk(i)
  \/ \E i \in 1..MaxReq, code \in {401, 500} : ServerErr(i, code)
  \/ \E i \in 1..MaxReq : RefreshOrdersResponse(i)
  \/ \E i \in 1..MaxReq : RefreshSellerOrdersResponse(i)
  \/ \E i \in 1..MaxReq : RefreshStatsResponse(i)
  \/ \E i \in 1..MaxReq : UpdateResponse(i)
  \/ \E i \in 1..MaxReq : UpdateStatsResponse(i)
  \/ PageLoad

SpecOM == InitOM /\ [][NextOM]_vars

----------------------------------------------------------------------------
\* OrderManagement: quick actions and refreshes of a seller who also placed
\* an order.

InitFetch ==
  /\ authToken = "t1"
  /\ pathname = ManagePath
  /\ tree = {"OrderProvider"}
  /\ navPending = FALSE
  /\ last401 = <<>>
  /\ reqs = <<>>
  /\ nreq = 0
  /\ srvOrders = <<[id |-> 3, status |-> "shipped"]>>
  /\ srvSellerOrders = <<[id |-> 1, status |-> "pending"], [id |-> 2, status |-> "confirmed"]>>
  /\ srvReviews = <<>>
  /\ user = "u1"
  /\ loggedOut = FALSE
  /\ fetched = <<>>
  /\ orders = srvOrders
  /\ sellerOrders = srvSellerOrders
  /\ sellerStats = <<Len(srvSellerOrders)>>
  /\ loading = FALSE
  /\ error = NoError
  /\ selectedOrder = 0
  /\ updateData = [status |-> ""]
  /\ isUpdating = FALSE
  /\ dialogOrder = 0
  /\ toast = ""
  /\ CheckoutUnused
  /\ ReviewsUnused
  /\ ProfileUnused

NextFetch ==
  \/ \E j \in OrderIds, status \in Status : QuickAction(j, status)
  \/ RefreshOrders
  \/ \E j \in OrderIds : BackendChange(j)
  \/ \E i \in DOMAIN reqs : ServerOk(i)
  \/ \E i \in DOMAIN reqs, code \in {401, 500} : ServerErr(i, code)
  \/ \E i \in DOMAIN reqs : RefreshOrdersResponse(i)
  \/ \E i \in DOMAIN reqs : RefreshSellerOrdersResponse(i)
  \/ \E i \in DOMAIN reqs : RefreshStatsResponse(i)
  \/ \E i \in DOMAIN reqs : UpdateResponse(i)
  \/ \E i \in DOMAIN reqs : UpdateStatsResponse(i)
  \/ PageLoad

SpecFetch == InitFetch /\ [][NextFetch]_vars

----------------------------------------------------------------------------
\* Checkout page.

ToastFill     == "Please fill in all required fields"
ToastPayment  == "Please complete payment information"
ToastAuth     == "Authentication required"
ToastPlaced   == "Order placed successfully!"
ToastPlaceErr == "Order placement failed"

\* A Checkout without the 'Your cart is empty' view.
FormShownAlways == pathname = CheckoutPath /\ ~navPending

\* Checkout renders its form unless the cart is empty before the success step.
FormShown == pathname = CheckoutPath /\ ~navPending /\ ~(cart = <<>> /\ step # 4)

\* A validateStep that lets every step pass.
validateStepAlways(stepNumber) == TRUE

\* Checkout.validateStep: every required field of the step is non-empty.
validateStep(stepNumber) ==
  CASE stepNumber = 1 -> \A f \in ShippingFields : formData[f] # ""
    [] stepNumber = 2 -> \A f \in PaymentFields : formData[f] # ""
    [] OTHER -> TRUE

\* ProductProvider.clearCart
clearCart == <<>>

\* ProductProvider.getCartTotal: the sum of the cart's line amounts,
\* item.product.price * item.quantity.
RECURSIVE getCartTotal(_)
getCartTotal(c) ==
  IF c = <<>> THEN 0
  ELSE Head(c).price * Head(c).quantity + getCartTotal(Tail(c))

\* The order summary of Checkout.  Amounts are numbers of hundredths of a
\* cent, in which 8% of an amount of whole cents is a whole number: the
\* arithmetic is exact, and no amount lies on a half cent.
FreeShippingAbove == 500000   \* 50
ShippingFee       == 99900    \* 9.99
TaxPercent        == 8        \* 0.08

subtotal == getCartTotal(cart)

\* A summary that ships free from a subtotal of 50 on.
shippingFrom50 == IF subtotal >= FreeShippingAbove THEN 0 ELSE ShippingFee

shipping == IF subtotal > FreeShippingAbove THEN 0 ELSE ShippingFee

tax == (subtotal * TaxPercent) \div 100

total == subtotal + shipping + tax

\* Number.prototype.toFixed(2) of a non-negative amount: the amount in whole
\* cents, rounded to the nearest.
toFixed2(x) == (x + 50) \div 100

\* An input of the step shown is edited: handleInputChange(field, value).
HandleInputChange(field, value) ==
  /\ FormShown
  /\ \/ step = 1 /\ field \in ShippingFields
     \/ step = 2 /\ field \in PaymentFields
  /\ formData[field] # value
  /\ formData' = [formData EXCEPT ![field] = value]
  /\ UNCHANGED <<browserVars, httpVars, srvVars, auVars, ordVars, omVars,
                 toast, cart, step, isProcessing, created, rpVars, prVars>>
  /\ UNCHANGED pfVars

\* 'Continue to Payment' and 'Review Order': handleNextStep.
HandleNextStep ==
  /\ FormShown
  /\ step \in {1, 2}
  /\ IF validateStep(step)
       THEN step' = step + 1 /\ UNCHANGED toast
       ELSE toast' = ToastFill /\ UNCHANGED step
  /\ UNCHANGED <<browserVars, httpVars, srvVars, auVars, ordVars, omVars,
                 cart, isProcessing, formData, created, rpVars, prVars>>
  /\ UNCHANGED pfVars

\* The Back buttons of steps 2 and 3.
Back ==
  /\ FormShown
  /\ step \in {2, 3}
  /\ step' = step - 1
  /\ UNCHANGED <<browserVars, httpVars, srvVars, auVars, ordVars, omVars,
                 toast, cart, isProcessing, formData, created, rpVars, prVars>>
  /\ UNCHANGED pfVars

\* The order_items handlePlaceOrder builds from the cart.
OrderItems(c) ==
  [n \in DOMAIN c |-> [product_id |-> c[n].product_id, quantity |-> c[n].quantity]]

\* handlePlaceOrder without its check of the signed-in user.
RefusalOfPaymentOnly ==
  IF ~validateStep(2) THEN ToastPayment ELSE ""

\* The two early returns of handlePlaceOrder: the toast it shows instead of
\* placing the order, "" when it goes on.
Refusal ==
  IF ~validateStep(2) THEN ToastPayment
  ELSE IF user = NoUser THEN ToastAuth
  ELSE ""

\* 'Place Order': handlePlaceOrder up to the await inside addOrder.
PlaceOrderButton ==
  /\ FormShown
  /\ step = 3
  /\ ~isProcessing
  /\ nreq + 1 <= MaxReq
  /\ Len(reqs) < MaxInFlight
  /\ IF Refusal # ""
       THEN toast' = Refusal /\ UNCHANGED <<httpVars, isProcessing>>
       ELSE /\ isProcessing' = TRUE
            /\ reqs' = Append(reqs,
                 [items |-> OrderItems(cart)] @@
                 NewRequest(authToken, nreq + 1, "orders.create", "checkout.create", 0, "", user))
            /\ nreq' = nreq + 1
            /\ UNCHANGED toast
  /\ UNCHANGED <<browserVars, srvVars, auVars, ordVars, omVars, cart, step,
                 formData, created, rpVars, prVars>>
  /\ UNCHANGED pfVars

\* addOrder resumes with the response of ordersAPI.create: on success the new
\* order is prepended; on failure the error is logged and set, and nothing
\* is rethrown.  handlePlaceOrder then continues after its await.
CreateResponse(i) ==
  /\ Answered(i, "checkout.create")
  /\ LET r == reqs[i] IN
       /\ ResponseInterceptor(r)
       /\ orders' = IF r.st = "ok" THEN r.data \o orders ELSE orders
       /\ error' = IF r.st = "ok" THEN error ELSE ErrCreate
       /\ created' = r.st
       /\ reqs' = Without(i)
  /\ cart' = clearCart
  /\ toast' = ToastPlaced
  /\ step' = 4
  /\ isProcessing' = FALSE
  /\ UNCHANGED <<nreq, srvVars, auVars, sellerOrders, sellerStats, loading,
                 fetched, omVars, formData, rpVars, prVars>>
  /\ UNCHANGED pfVars

\* Carts a visitor may arrive at the checkout with; a price is a number of
\* hundredths of a cent.  Their subtotals are $50.00, $50.01 and $49.98.
Carts ==
  {<<>>,
   <<[product_id |-> 1, quantity |-> 1, price |-> 500000]>>,
   <<[product_id |-> 1, quantity |-> 2, price |-> 200000],
     [product_id |-> 2, quantity |-> 1, price |-> 100100]>>,
   <<[product_id |-> 2, quantity |-> 3, price |-> 166600]>>}

\* Checkout as it is mounted: the name and e-mail fields are prefilled from
\* the signed-in user (a one-word name leaves lastName empty).
InitCheckout ==
  /\ pathname = CheckoutPath
  /\ tree = {"OrderProvider"}
  /\ navPending = FALSE
  /\ last401 = <<>>
  /\ reqs = <<>>
  /\ nreq = 0
  /\ srvOrders = <<>>
  /\ srvSellerOrders = <<>>
  /\ srvReviews = <<>>
  /\ \/ user = NoUser /\ authToken = NoToken /\ formData = EmptyForm
     \/ /\ user = "u1"
        /\ authToken = "t1"
        /\ \E last \in {"", "x"} :
             formData = [EmptyForm EXCEPT !["firstName"] = "x",
                                          !["lastName"] = last,
                                          !["email"] = "x"]
  /\ loggedOut = FALSE
  /\ fetched = <<>>
  /\ orders = <<>>
  /\ sellerOrders = <<>>
  /\ sellerStats = <<>>
  /\ loading = FALSE
  /\ error = NoError
  /\ selectedOrder = 0
  /\ updateData = [status |-> ""]
  /\ isUpdating = FALSE
  /\ dialogOrder = 0
  /\ toast = ""
  /\ cart \in Carts
  /\ step = 1
  /\ isProcessing = FALSE
  /\ created = ""
  /\ ReviewsUnused
  /\ ProfileUnused

NextCheckout ==
  \/ \E f \in ShippingFields \cup PaymentFields, v \in {"", "x"} : HandleInputChange(f, v)
  \/ HandleNextStep
  \/ Back
  \/ PlaceOrderButton
  \/ \E i \in 1..MaxReq : ServerOk(i)
  \/ \E i \in 1..MaxReq, code \in {401, 500} : ServerErr(i, code)
  \/ \E i \in 1..MaxReq : CreateResponse(i)
  \/ PageLoad

SpecCheckout == InitCheckout /\ [][NextCheckout]_vars

----------------------------------------------------------------------------
\* ReviewProvider, and a session of sign-ins and sign-outs.

\* fetchUserReviews() of the effect resumes: the reviews of the response are
\* stored, whoever is signed in by now; a failure empties the list.
UserReviewsResponse(i) ==
  /\ Answered(i, "userReviews")
  /\ LET r == reqs[i] IN
       /\ ResponseInterceptor(r)
       /\ userReviews' = IF r.st = "ok" THEN r.data ELSE <<>>
       /\ reqs' = Without(i)
  /\ UNCHANGED <<nreq, srvVars, auVars, ordVars, omVars, toast, coVars,
                 ctxReviews, revError, prVars>>
  /\ UNCHANGED pfVars

\* The pages a session visits: the profile page and the two auth pages.
SessionPaths == {ProfilePath} \cup AuthPaths

\* A browser opens one of the pages, with or without a token of an earlier
\* session in local storage; the backend holds one review of user u1.
InitSession ==
  /\ authToken \in {NoToken, "t1"}
  /\ pathname \in SessionPaths
  /\ navPending = FALSE
  /\ last401 = <<>>
  /\ tree = {"ReviewProvider"}
  /\ srvOrders = <<>>
  /\ srvSellerOrders = <<>>
  /\ srvReviews = <<[id |-> 1, user |-> "u1", product |-> 2]>>
  /\ user = NoUser
  /\ loggedOut = FALSE
  /\ fetched = <<>>
  /\ orders = <<>>
  /\ sellerOrders = <<>>
  /\ sellerStats = <<>>
  /\ reqs = CheckAuthRequests(authToken)
  /\ nreq = Len(reqs)
  /\ loading = TRUE
  /\ error = NoError
  /\ selectedOrder = 0
  /\ updateData = [status |-> ""]
  /\ isUpdating = FALSE
  /\ dialogOrder = 0
  /\ toast = ""
  /\ CheckoutUnused
  /\ ReviewsUnused
  /\ ProfileUnused

NextSession ==
  \/ \E i \in DOMAIN reqs : CheckAuthResponse(i)
  \/ \E u \in Users : Login(u)
  \/ \E u \in Users : Register(u)
  \/ \E i \in DOMAIN reqs : LoginResponse(i)
  \/ Logout
  \/ \E i \in DOMAIN reqs : LogoutResponse(i)
  \/ \E i \in DOMAIN reqs : UserReviewsResponse(i)
  \/ \E path \in SessionPaths : Navigate(path)
  \/ \E i \in DOMAIN reqs : ServerOk(i)
  \/ \E i \in DOMAIN reqs, code \in {401, 500} : ServerErr(i, code)
  \/ PageLoad

SpecSession == InitSession /\ [][NextSession]_vars

----------------------------------------------------------------------------
\* ProductReviews component.

\* The product whose page is open (prop productId).
ThisProduct == 1

\* Length a trimmed comment must reach.
MinCommentLen == 10

ToastIncomplete   == "Review incomplete"
ToastTooShort     == "Review too short"
ToastSubmitted    == "Review submitted!"
ToastReviewFailed == "Review failed"
ErrAddReview      == "Failed to add review. Please try again."

\* Comments are sequences of characters: a blank or a letter.
Blanks(n)  == [j \in 1..n |-> " "]
Letters(n) == [j \in 1..n |-> "x"]

\* The comments typed: a text that is empty, one short of the minimum, or of
\* the minimum length, with blanks around it.
Comments ==
  {Blanks(l) \o Letters(n) \o Blanks(t) :
     l \in 0..MaxPad, n \in {0, MinCommentLen - 1, MinCommentLen}, t \in 0..MaxPad}

\* String.prototype.trim
RECURSIVE TrimStart(_)
TrimStart(str) ==
  IF str # <<>> /\ Head(str) = " " THEN TrimStart(Tail(str)) ELSE str

RECURSIVE TrimEnd(_)
TrimEnd(str) ==
  IF str # <<>> /\ str[Len(str)] = " "
    THEN TrimEnd(SubSeq(str, 1, Len(str) - 1)) ELSE str

Trim(str) == TrimEnd(TrimStart(str))

\* handleSubmitReview: !reviewForm.comment.trim()
Blank(comment) == Trim(comment) = <<>>

\* A length check that forgets to trim.
TooShortUntrimmed(comment) == Len(comment) < MinCommentLen

\* handleSubmitReview: reviewForm.comment.trim().length < 10
TooShort(comment) == Len(Trim(comment)) < MinCommentLen

\* reviews.sort by created_at, newest first; the backend numbers reviews in
\* the order of their creation.
RECURSIVE SortNewestFirst(_)
SortNewestFirst(list) ==
  IF list = <<>> THEN <<>>
  ELSE LET j == CHOOSE j \in DOMAIN list : \A l \in DOMAIN list : list[l].id <= list[j].id
       IN  <<list[j]>> \o
           SortNewestFirst([l \in 1..(Len(list) - 1) |->
                              IF l < j THEN list[l] ELSE list[l + 1]])

\* The Write a Review dialog and its trigger are rendered.
DialogRendered ==
  pathname = ProductPath /\ ~navPending /\ user # NoUser /\ canReview

DialogShown == DialogRendered /\ isReviewDialogOpen

\* The user works on the dialog while the page awaits no response.
Idle == reqs = <<>>

\* The Write a Review button: onOpenChange(true).
OpenReviewDialog ==
  /\ DialogRendered
  /\ ~isReviewDialogOpen
  /\ Idle
  /\ isReviewDialogOpen' = TRUE
  /\ UNCHANGED <<browserVars, httpVars, srvVars, auVars, ordVars, omVars, toast,
                 coVars, rpVars, canReview, reviewForm, pReviews>>
  /\ UNCHANGED pfVars

\* The dialog's Cancel button, or its dismissal: setIsReviewDialogOpen(false).
CloseReviewDialog ==
  /\ DialogShown
  /\ Idle
  /\ isReviewDialogOpen' = FALSE
  /\ UNCHANGED <<browserVars, httpVars, srvVars, auVars, ordVars, omVars, toast,
                 coVars, rpVars, canReview, reviewForm, pReviews>>
  /\ UNCHANGED pfVars

\* A star of the dialog is clicked.
SetRating(rating) ==
  /\ DialogShown
  /\ Idle
  /\ reviewForm' = [reviewForm EXCEPT !.rating = rating]
  /\ UNCHANGED <<browserVars, httpVars, srvVars, auVars, ordVars, omVars, toast,
                 coVars, rpVars, isReviewDialogOpen, canReview, pReviews>>
  /\ UNCHANGED pfVars

\* The comment textarea is edited.
SetComment(comment) ==
  /\ DialogShown
  /\ Idle
  /\ reviewForm' = [reviewForm EXCEPT !.comment = comment]
  /\ UNCHANGED <<browserVars, httpVars, srvVars, auVars, ordVars, omVars, toast,
                 coVars, rpVars, isReviewDialogOpen, canReview, pReviews>>
  /\ UNCHANGED pfVars

\* The two requests of Promise.all([getProductReviews(id), getProductRating(id)]).
ReviewsAndRating(token, id, k, cu) ==
  <<NewRequest(token, id, "reviews.getByProduct", k, ThisProduct, "", cu),
    NewRequest(token, id + 1, "reviews.getProductRating", k, ThisProduct, "", cu)>>

\* The Submit Review button: handleSubmitReview up to its await.
HandleSubmitReview ==
  /\ DialogShown
  /\ Idle
  /\ IF Blank(reviewForm.comment)
       THEN /\ toast' = ToastIncomplete
            /\ UNCHANGED httpVars
       ELSE IF TooShort(reviewForm.comment)
       THEN /\ toast' = ToastTooShort
            /\ UNCHANGED httpVars
       ELSE /\ nreq + 1 <= MaxReq
            /\ reqs' = Append(reqs, [review |-> reviewForm] @@
                         NewRequest(authToken, nreq + 1, "reviews.create", "pr.add",
                                    ThisProduct, "", user))
            /\ nreq' = nreq + 1
            /\ UNCHANGED toast
  /\ UNCHANGED <<browserVars, srvVars, auVars, ordVars, omVars, coVars, rpVars,
                 prVars>>
  /\ UNCHANGED pfVars

\* A handleSubmitReview that closes the dialog whatever addReview did.
DialogClosedAfterSubmit(r, open) == FALSE

\* handleSubmitReview: setIsReviewDialogOpen(false) follows the await of
\* addReview inside the try block, so a failed addReview skips it.
DialogAfterSubmit(r, open) == IF r.st = "ok" THEN FALSE ELSE open

\* addReview resumes, then handleSubmitReview: on success the review is put
\* in front of the provider's lists, the dialog closes, the form is reset and
\* the reviews are reloaded; on failure the toast 'Review failed' is shown.
\* When the provider's state changed it renders again, its functions are new
\* ones and the effect of ProductReviews runs loadData once more.
AddReviewResponse(i) ==
  /\ Answered(i, "pr.add")
  /\ LET r == reqs[i]
         rendered == r.st = "ok" \/ revError # ErrAddReview
         reload == IF r.st = "ok"
                     THEN ReviewsAndRating(authToken', nreq + 1, "pr.reload", r.cu)
                     ELSE <<>>
         load == IF rendered
                   THEN ReviewsAndRating(authToken', nreq + Len(reload) + 1, "load", user)
                   ELSE <<>>
     IN
       /\ ResponseInterceptor(r)
       /\ userReviews' = IF r.st = "ok" THEN r.data \o userReviews ELSE userReviews
       /\ ctxReviews' = IF r.st = "ok" THEN r.data \o ctxReviews ELSE ctxReviews
       /\ revError' = IF r.st = "ok" THEN revError ELSE ErrAddReview
       /\ toast' = IF r.st = "ok" THEN ToastSubmitted ELSE ToastReviewFailed
       /\ isReviewDialogOpen' = DialogAfterSubmit(r, isReviewDialogOpen)
       /\ reviewForm' = IF r.st = "ok" THEN EmptyReview ELSE reviewForm
       /\ reqs' = Without(i) \o reload \o load
       /\ nreq' = nreq + Len(reload) + Len(load)
  /\ UNCHANGED <<srvVars, auVars, ordVars, omVars, coVars, canReview, pReviews>>
  /\ UNCHANGED pfVars

\* Position of the other request of a Promise.all pair.
Sibling(i) ==
  LET id == IF reqs[i].api = "reviews.getByProduct" THEN reqs[i].id + 1
                                                      ELSE reqs[i].id - 1
  IN  CHOOSE j \in DOMAIN reqs : reqs[j].id = id

\* What getProductReviews and getProductRating resolve to: the sorted data,
\* or their fallback when the request failed.
Resolved(r) == IF r.st = "ok" THEN SortNewestFirst(r.data) ELSE <<>>

\* The request at position i is settled and its sibling still awaited.
Hold(i) == [reqs EXCEPT ![i] = [@ EXCEPT !.st = "held", !.data = Resolved(reqs[i])]]

\* The requests without the pair of the one at position i.
WithoutPair(i) ==
  SelectSeq(reqs, LAMBDA q : q.id \notin {reqs[i].id, reqs[Sibling(i)].id})

\* The reviews the pair of the request at position i resolved to.
ReviewsOfPair(i) ==
  IF reqs[i].api = "reviews.getByProduct" THEN Resolved(reqs[i])
                                          ELSE reqs[Sibling(i)].data

Settled(i, k) ==
  /\ ~navPending
  /\ i \in DOMAIN reqs
  /\ reqs[i].k = k
  /\ reqs[i].st \in {"ok", "err"}

\* A response of loadData's Promise.all arrives; with the second one
\* loadData resumes: setReviews, and canUserReview for a signed-in user.
LoadDataResponse(i) ==
  /\ Settled(i, "load")
  /\ LET r == reqs[i] IN
       /\ ResponseInterceptor(r)
       /\ IF reqs[Sibling(i)].st = "held"
            THEN /\ pReviews' = ReviewsOfPair(i)
                 /\ IF r.cu # NoUser
                      THEN /\ reqs' = Push(authToken', WithoutPair(i), nreq + 1,
                                           "reviews.getUserReviews", "load.can",
                                           ThisProduct, "", r.cu)
                           /\ nreq' = nreq + 1
                      ELSE /\ reqs' = WithoutPair(i)
                           /\ UNCHANGED nreq
            ELSE /\ reqs' = Hold(i)
                 /\ UNCHANGED <<nreq, pReviews>>
  /\ UNCHANGED <<srvVars, auVars, ordVars, omVars, toast, coVars, rpVars,
                 isReviewDialogOpen, canReview, reviewForm>>
  /\ UNCHANGED pfVars

\* canUserReview resumes inside loadData: getUserReviews gives the reviews of
\* the response, or [] when the request failed, and the user can review when
\* none of them is for this product.
CanReviewResponse(i) ==
  /\ Answered(i, "load.can")
  /\ LET r == reqs[i]
         userReviewsData == Resolved(r)
     IN
       /\ ResponseInterceptor(r)
       /\ canReview' = (SelectSeq(userReviewsData,
                                  LAMBDA review : review.product = r.oid) = <<>>)
       /\ reqs' = Without(i)
  /\ UNCHANGED <<nreq, srvVars, auVars, ordVars, omVars, toast, coVars, rpVars,
                 isReviewDialogOpen, reviewForm, pReviews>>
  /\ UNCHANGED pfVars

\* A response of handleSubmitReview's Promise.all arrives; with the second
\* one the handler resumes: setReviews and setCanReview(false).
ReloadResponse(i) ==
  /\ Settled(i, "pr.reload")
  /\ LET r == reqs[i] IN
       /\ ResponseInterceptor(r)
       /\ IF reqs[Sibling(i)].st = "held"
            THEN /\ pReviews' = ReviewsOfPair(i)
                 /\ canReview' = FALSE
                 /\ reqs' = WithoutPair(i)
            ELSE /\ reqs' = Hold(i)
                 /\ UNCHANGED <<pReviews, canReview>>
  /\ UNCHANGED <<nreq, srvVars, auVars, ordVars, omVars, toast, coVars, rpVars,
                 isReviewDialogOpen, reviewForm>>
  /\ UNCHANGED pfVars

\* The product page of a signed-in user who has not reviewed the product,
\* once the loads of the mount are done.
InitReviews ==
  /\ authToken = "t1"
  /\ pathname = ProductPath
  /\ navPending = FALSE
  /\ last401 = <<>>
  /\ tree = {"ReviewProvider"}
  /\ reqs = <<>>
  /\ nreq = 0
  /\ srvOrders = <<>>
  /\ srvSellerOrders = <<>>
  /\ srvReviews = <<[id |-> 1, user |-> "u1", product |-> 2]>>
  /\ user = "u1"
  /\ loggedOut = FALSE
  /\ fetched = <<>>
  /\ orders = <<>>
  /\ sellerOrders = <<>>
  /\ sellerStats = <<>>
  /\ loading = TRUE
  /\ error = NoError
  /\ selectedOrder = 0
  /\ updateData = [status |-> ""]
  /\ isUpdating = FALSE
  /\ dialogOrder = 0
  /\ toast = ""
  /\ CheckoutUnused
  /\ userReviews = srvReviews
  /\ ctxReviews = <<>>
  /\ revError = NoError
  /\ isReviewDialogOpen = FALSE
  /\ canReview = TRUE
  /\ reviewForm = EmptyReview
  /\ pReviews = <<>>
  /\ ProfileUnused

NextReviews ==
  \/ OpenReviewDialog
  \/ CloseReviewDialog
  \/ \E rating \in 1..5 : SetRating(rating)
  \/ \E comment \in Comments : SetComment(comment)
  \/ HandleSubmitReview
  \/ \E i \in DOMAIN reqs : AddReviewResponse(i)
  \/ \E i \in DOMAIN reqs : LoadDataResponse(i)
  \/ \E i \in DOMAIN reqs : CanReviewResponse(i)
  \/ \E i \in DOMAIN reqs : ReloadResponse(i)
  \/ \E i \in DOMAIN reqs : ServerOk(i)
  \/ \E i \in DOMAIN reqs, code \in {401, 500} : ServerErr(i, code)
  \/ PageLoad

SpecReviews == InitReviews /\ [][NextReviews]_vars

----------------------------------------------------------------------------
\* The Profile page and AuthProvider.updateProfile.

ToastProfileUpdated == "Profile updated!"
ToastUpdateFailed   == "Update failed"
ErrUpdateProfile    == "Failed to update profile. Please try again."

\* The names a user may type into the form.
ProfileNames == {"Ada", "Bea"}

\* AuthProvider.loading is true from updateProfile's setLoading(true) to its
\* finally, that is while its request is in flight.
AuthLoading == \E i \in DOMAIN reqs : reqs[i].k = "profile.update"

\* Profile renders the form when AuthProvider is not loading and a user is
\* signed in.
ProfileShown ==
  /\ ~navPending
  /\ pathname = ProfilePath
  /\ ~AuthLoading
  /\ user # NoUser

\* The effect on [formData, user]: hasChanges once the form holds name.
HasFormChanges(name, u) == name # u

\* handleChange: the field is set and a shown error is cleared.
HandleChange(value) ==
  /\ ProfileShown
  /\ value # profileForm
  /\ profileForm' = value
  /\ authError' = NoError
  /\ hasChanges' = HasFormChanges(value, userName)
  /\ UNCHANGED <<browserVars, httpVars, srvVars, auVars, ordVars, omVars, toast,
                 coVars, rpVars, prVars, userName, isSubmitting>>

\* handleReset, behind the Reset button that is rendered when hasChanges.
HandleReset ==
  /\ ProfileShown
  /\ hasChanges
  /\ ~isSubmitting
  /\ profileForm' = userName
  /\ authError' = NoError
  /\ hasChanges' = HasFormChanges(userName, userName)
  /\ UNCHANGED <<browserVars, httpVars, srvVars, auVars, ordVars, omVars, toast,
                 coVars, rpVars, prVars, userName, isSubmitting>>

\* handleSubmit up to its await, behind the Save button that is disabled when
\* !hasChanges or isSubmitting: updateProfile sends PUT /auth/profile.
HandleSubmit ==
  /\ ProfileShown
  /\ hasChanges
  /\ ~isSubmitting
  /\ nreq + 1 <= MaxReq
  /\ isSubmitting' = TRUE
  /\ authError' = NoError
  /\ reqs' = Append(reqs, [profile |-> profileForm] @@
               NewRequest(authToken, nreq + 1, "auth.updateProfile",
                          "profile.update", 0, "", user))
  /\ nreq' = nreq + 1
  /\ UNCHANGED <<browserVars, srvVars, auVars, ordVars, omVars, toast, coVars,
                 rpVars, prVars, userName, profileForm, hasChanges>>

\* The toast handleSubmit shows once updateProfile has settled: updateProfile
\* catches a failure, sets AuthProvider.error and resolves to false, so
\* handleSubmit's catch is not entered and a failure shows no toast.
SubmitToast(r, old) == IF r.st = "ok" THEN ToastProfileUpdated ELSE old

\* updateProfile resumes with the response, then handleSubmit after its
\* await.  On success setUser gives Profile a new user: its effects reset
\* the form to the user's fields and recompute hasChanges.
UpdateProfileResponse(i) ==
  /\ Answered(i, "profile.update")
  /\ LET r == reqs[i] IN
       /\ ResponseInterceptor(r)
       /\ userName' = IF r.st = "ok" THEN r.data[1].name ELSE userName
       /\ authError' = IF r.st = "ok" THEN NoError ELSE ErrUpdateProfile
       /\ profileForm' = IF r.st = "ok" THEN userName' ELSE profileForm
       /\ hasChanges' = HasFormChanges(profileForm', userName')
       /\ toast' = SubmitToast(r, toast)
       /\ reqs' = Without(i)
  /\ isSubmitting' = FALSE
  /\ UNCHANGED <<nreq, srvVars, auVars, ordVars, omVars, coVars, rpVars, prVars>>

\* A signed-in user has opened the Profile page.
InitProfile ==
  /\ authToken = "t1"
  /\ pathname = ProfilePath
  /\ navPending = FALSE
  /\ last401 = <<>>
  /\ tree = {}
  /\ srvOrders = <<>>
  /\ srvSellerOrders = <<>>
  /\ srvReviews = <<>>
  /\ user = "u1"
  /\ loggedOut = FALSE
  /\ fetched = <<>>
  /\ orders = <<>>
  /\ sellerOrders = <<>>
  /\ sellerStats = <<>>
  /\ reqs = <<>>
  /\ nreq = 0
  /\ loading = FALSE
  /\ error = NoError
  /\ selectedOrder = 0
  /\ updateData = [status |-> ""]
  /\ isUpdating = FALSE
  /\ dialogOrder = 0
  /\ toast = ""
  /\ CheckoutUnused
  /\ ReviewsUnused
  /\ userName \in ProfileNames
  /\ authError = NoError
  /\ profileForm = userName
  /\ hasChanges = FALSE
  /\ isSubmitting = FALSE

NextProfile ==
  \/ HandleReset
  \/ \E value \in ProfileNames : HandleChange(value)
  \/ HandleSubmit
  \/ \E i \in DOMAIN reqs : ServerOk(i)
  \/ \E i \in DOMAIN reqs, code \in {401, 500} : ServerErr(i, code)
  \/ \E i \in DOMAIN reqs : UpdateProfileResponse(i)
  \/ PageLoad

SpecProfile == InitProfile /\ [][NextProfile]_vars

----------------------------------------------------------------------------
\* Properties of OrderManagement.

\* Position of a status in the fixed sequence, 0 for a status outside it.
FlowPos(status) ==
  IF \E n \in DOMAIN statusFlow : statusFlow[n] = status
    THEN CHOOSE n \in DOMAIN statusFlow : statusFlow[n] = status
    ELSE 0

\* C3: for the order whose Manage Order dialog is open, getStatusOptions
\* offers only statuses at or after the order's current status in the fixed
\* sequence, plus cancelled, and offers no status of the sequence when the
\* order is cancelled.
C3_OptionsForwardOnly ==
  dialogOrder # 0 =>
    LET current == StatusOf(sellerOrders, dialogOrder)
        offered == Range(getStatusOptions(current))
    IN  /\ \A status \in offered :
             \/ status = "cancelled"
             \/ FlowPos(current) > 0 /\ FlowPos(status) >= FlowPos(current)
        /\ current = "cancelled" => offered \cap Range(statusFlow) = {}

\* C4: every update request in flight carries a status that is later in the
\* fixed sequence than the status the targeted order had when the request
\* was sent, or cancelled; never an earlier, the unchanged or an empty status.
C4_UpdatesForwardOnly ==
  \A i \in DOMAIN reqs :
    reqs[i].api = "orders.update" =>
      /\ reqs[i].status # ""
      /\ reqs[i].status # reqs[i].cur
      /\ \/ reqs[i].status = "cancelled"
         \/ /\ FlowPos(reqs[i].cur) > 0
            /\ FlowPos(reqs[i].status) > FlowPos(reqs[i].cur)

----------------------------------------------------------------------------
\* Properties of Checkout.

\* C1: the cart is cleared and the step becomes 4 only when the order was
\* created; after a failed ordersAPI.create the cart keeps its items and the
\* step stays 3.
C1_ClearedOnlyOnSuccess ==
  /\ step = 4 => created = "ok"
  /\ created = "err" => cart # <<>> /\ step = 3

\* C2: after a failed ordersAPI.create the toast shown is 'Order placement
\* failed', not 'Order placed successfully!'.
C2_FailureToast ==
  created = "err" => toast = ToastPlaceErr

----------------------------------------------------------------------------
\* Properties of OrderProvider.

\* C6: fetch results replace the list unconditionally in arrival order: the
\* orders list equals the data of the orders response that was processed
\* last, also when that response answers the older of two overlapping
\* requests.
C6_LastResponseWins == fetched # <<>> => orders = fetched[1].data

\* Two fetches overlapped, the response to the older request was processed
\* last, and the list now shows its data, which the backend no longer holds.
C6_StaleOverwrote ==
  /\ fetched # <<>>
  /\ fetched[1].stale
  /\ orders = fetched[1].data
  /\ orders # srvOrders
  /\ \A i \in DOMAIN reqs : reqs[i].api # "orders.getAll"

\* C7: once logout has completed and user is null, orders and sellerOrders
\* are empty and sellerStats is null.
C7_DiscardedOnLogout ==
  (loggedOut /\ user = NoUser) =>
    (orders = <<>> /\ sellerOrders = <<>> /\ sellerStats = <<>>)

----------------------------------------------------------------------------
\* Properties of a session.

\* C8: once logout has made the user null and every outstanding response
\* was processed, ReviewProvider.userReviews is empty.
C8_ReviewsDiscardedOnLogout ==
  (loggedOut /\ user = NoUser /\ reqs = <<>>) => userReviews = <<>>

\* The step processes the 401 response to the request at position i.
Handled401(i) ==
  /\ ~navPending
  /\ Failed401(reqs[i])
  /\ \A j \in DOMAIN reqs' : reqs'[j].id # reqs[i].id

\* The caller of the request at position i took its error path.
Propagated(i) ==
  /\ reqs[i].k \in {"auth.check", "auth.login"} => user' = user
  /\ reqs[i].k = "auth.logout" => user' = NoUser
  /\ reqs[i].k = "userReviews" => userReviews' = <<>>

\* C9 as stated: on every 401 response, whatever the request and the page,
\* the token is removed and the browser is redirected to /signin (or is
\* there already).
C9_Every401Redirects ==
  [][\A i \in DOMAIN reqs : Handled401(i) =>
        /\ authToken' = NoToken
        /\ navPending' \/ pathname = "/signin"]_vars

\* C9, amended: on every 401 response the token is removed and the error
\* reaches the caller; the browser is redirected to /signin exactly when the
\* current page is neither /signin nor /signup.
C9_RedirectOutsideAuthPages ==
  [][\A i \in DOMAIN reqs : Handled401(i) =>
        /\ authToken' = NoToken
        /\ navPending' <=> pathname \notin AuthPaths
        /\ Propagated(i)]_vars

\* A 401 was processed on /signup: the token is gone and the browser stays
\* on /signup.
C9_StaysOnSignUp ==
  /\ last401 # <<>>
  /\ last401[1].path = "/signup"
  /\ last401[1].token = NoToken
  /\ ~last401[1].nav
  /\ pathname = "/signup"
  /\ ~navPending
  /\ authToken = NoToken

\* C10: every request carries 'Bearer <token>' with the token that was in
\* local storage when it was sent, and no Authorization header when none
\* was stored.
C10_BearerOfStoredToken ==
  \A i \in DOMAIN reqs :
    reqs[i].hdr = IF reqs[i].stored \in Tokens
                    THEN <<"Bearer", reqs[i].stored>> ELSE <<>>

\* After a logout removed the token, a sign-in request is in flight and
\* carries no Authorization header.
C10_NoHeaderAfterLogout ==
  /\ loggedOut
  /\ authToken = NoToken
  /\ \E i \in DOMAIN reqs : reqs[i].k = "auth.login" /\ reqs[i].hdr = <<>>

----------------------------------------------------------------------------
\* Properties of ProductReviews.

\* C5: submitting a review whose trimmed comment has fewer than 10
\* characters shows a validation toast, sends no request, and leaves the
\* dialog and the form as they were.
C5_ShortCommentRejected ==
  [][(HandleSubmitReview /\ Len(Trim(reviewForm.comment)) < MinCommentLen) =>
        /\ toast' \in {ToastIncomplete, ToastTooShort}
        /\ reqs' = reqs
        /\ isReviewDialogOpen' = isReviewDialogOpen
        /\ reviewForm' = reviewForm]_vars

\* A comment of nine letters and a blank was submitted: the toast 'Review
\* too short' is shown, the dialog is open with the comment in it, and no
\* request has been sent.
C5_ShortCommentStays ==
  /\ toast = ToastTooShort
  /\ DialogShown
  /\ Len(reviewForm.comment) >= MinCommentLen
  /\ Len(Trim(reviewForm.comment)) < MinCommentLen
  /\ reqs = <<>>
  /\ nreq = 0

----------------------------------------------------------------------------
\* Properties of the fetches and the quick actions.

\* The step consumes the response to the request at position i.
Consumed(i) ==
  /\ ~navPending
  /\ reqs[i].st \in {"ok", "err"}
  /\ \A j \in DOMAIN reqs' : reqs'[j].id # reqs[i].id

\* C11: right after the response of a successful fetch is processed, the
\* list it fetches (orders, sellerOrders, sellerStats) equals exactly the
\* response data, whatever it held before.
C11_ReplacedWholesale ==
  [][\A i \in DOMAIN reqs : (Consumed(i) /\ reqs[i].st = "ok") =>
        /\ reqs[i].api = "orders.getAll" => orders' = reqs[i].data
        /\ reqs[i].api = "orders.getSellerOrders" => sellerOrders' = reqs[i].data
        /\ reqs[i].api = "orders.getSellerStats" => sellerStats' = reqs[i].data]_vars

\* A successful fetch found a non-empty list that differed from its
\* response, and the list now is the response.
C11_OtherListReplaced ==
  /\ fetched # <<>>
  /\ fetched[1].prev # <<>>
  /\ fetched[1].prev # fetched[1].data
  /\ orders = fetched[1].data

\* C13: one click on a quick action of order O sends exactly one update
\* request, with O's id and the status of the button.
C13_QuickActionSendsItsOrder ==
  [][\A j \in OrderIds, status \in Status : QuickAction(j, status) =>
        /\ Len(reqs') = Len(reqs) + 1
        /\ reqs'[Len(reqs')].api = "orders.update"
        /\ reqs'[Len(reqs')].oid = sellerOrders[j].id
        /\ reqs'[Len(reqs')].status = status]_vars

\* The fetches of refreshOrders, by the caller awaiting them.
RefreshFetches ==
  [k \in {"refresh.orders", "refresh.sellerOrders", "refresh.stats"} |->
     CASE k = "refresh.orders" -> ErrOrders
       [] k = "refresh.sellerOrders" -> ErrSellerOrders
       [] k = "refresh.stats" -> ErrSellerStats]

\* C19: a fetch that fails with 401 leaves the error message as it was, a
\* fetch that fails otherwise sets its message; both keep the cached lists.
C19_ErrorUnless401 ==
  [][\A i \in DOMAIN reqs :
        (Consumed(i) /\ reqs[i].st = "err" /\ reqs[i].k \in DOMAIN RefreshFetches) =>
          /\ UNCHANGED <<orders, sellerOrders, sellerStats>>
          /\ error' = IF reqs[i].code = 401 THEN error ELSE RefreshFetches[reqs[i].k]]_vars

\* The fetch of the orders failed with 401: no error message is set and the
\* cached lists are still there.
C19_QuietOn401 ==
  /\ last401 # <<>>
  /\ last401[1].k = "refresh.orders"
  /\ error = NoError
  /\ orders # <<>>
  /\ sellerOrders # <<>>
  /\ authToken = NoToken

\* C12: when the profile-update request sent by Profile.handleSubmit fails,
\* the step that processes the failure shows the destructive 'Update failed'
\* toast (and so not 'Profile updated!').
C12_UpdateFailedToast ==
  [][\A i \in DOMAIN reqs :
       (Consumed(i) /\ reqs[i].k = "profile.update" /\ reqs[i].st = "err")
         => toast' = ToastUpdateFailed]_vars

----------------------------------------------------------------------------
\* Properties of canUserReview.

\* C14: when the request that fetches the user's reviews for canUserReview
\* fails, canUserReview returns false: the step that processes the failure
\* leaves canReview false.
C14_FailedFetchDenies ==
  [][\A i \in DOMAIN reqs :
       (Consumed(i) /\ reqs[i].k = "load.can" /\ reqs[i].st = "err")
         => ~canReview']_vars

\* The backend holds a review of this product by the signed-in user.
Reviewed ==
  \E n \in DOMAIN srvReviews :
    srvReviews[n].user = user /\ srvReviews[n].product = ThisProduct

\* C15: a user can review a product at most once through the UI: once the
\* user's review of the product is stored and the page has settled, canReview
\* is false, so the review dialog is not offered again.
C15_ReviewedOnce == (Idle /\ ~navPending /\ Reviewed) => ~canReview

----------------------------------------------------------------------------
\* Properties of Checkout.

\* C16: handlePlaceOrder sends no create request when no user is signed in
\* or a payment field is empty: it shows one of its two destructive toasts
\* and leaves step, cart and isProcessing as they were.
C16_RefusedOrderSendsNothing ==
  [][(PlaceOrderButton /\ (user = NoUser \/ \E f \in PaymentFields : formData[f] = ""))
       => /\ UNCHANGED <<reqs, nreq, step, cart, isProcessing>>
          /\ toast' \in {ToastPayment, ToastAuth}]_vars

\* A visitor who is not signed in reached the review step and pressed
\* 'Place Order'.
C16_RefusedWithoutUser ==
  /\ user = NoUser
  /\ step = 3
  /\ toast = ToastAuth
  /\ nreq = 0

\* C17: step is always one of 1..4; at steps 2 and 3 every required shipping
\* field is non-empty and at step 3 every payment field is; a click on
\* Continue or Review that fails validation leaves step unchanged and shows
\* the toast.
C17_StepsGated ==
  /\ [](/\ step \in 1..4
        /\ step \in {2, 3} => \A f \in ShippingFields : formData[f] # ""
        /\ step = 3 => \A f \in PaymentFields : formData[f] # "")
  /\ [][(/\ HandleNextStep
         /\ \/ step = 1 /\ \E f \in ShippingFields : formData[f] = ""
            \/ step = 2 /\ \E f \in PaymentFields : formData[f] = "")
          => step' = step /\ toast' = ToastFill]_vars

\* The review step was reached after a click that failed validation.
C17_ReviewAfterRefusal == step = 3 /\ toast = ToastFill

\* C20: every create request Checkout sends carries at least one order item,
\* and one item per cart entry with that entry's product and quantity.
C20_ItemsOfTheCart ==
  \A i \in DOMAIN reqs :
    reqs[i].api = "orders.create" =>
      /\ Len(reqs[i].items) >= 1
      /\ Len(reqs[i].items) = Len(cart)
      /\ \A n \in DOMAIN cart :
           /\ reqs[i].items[n].product_id = cart[n].product_id
           /\ reqs[i].items[n].quantity = cart[n].quantity

\* A create request for a cart of two entries is in flight.
C20_TwoItemsSent ==
  \E i \in DOMAIN reqs : reqs[i].api = "orders.create" /\ Len(reqs[i].items) = 2

----------------------------------------------------------------------------
\* Properties of a failed review submission.

\* C18: when the review-creation request fails, addReview sets the provider's
\* error and leaves userReviews and reviews as they were, and ProductReviews
\* shows the 'Review failed' toast, keeps the dialog open with the rating and
\* comment entered, and leaves canReview unchanged.
C18_FailedReviewKeepsDialog ==
  [][\A i \in DOMAIN reqs :
       (Consumed(i) /\ reqs[i].k = "pr.add" /\ reqs[i].st = "err")
         => /\ revError' = ErrAddReview
            /\ toast' = ToastReviewFailed
            /\ isReviewDialogOpen' /\ isReviewDialogOpen
            /\ UNCHANGED <<userReviews, ctxReviews, reviewForm, canReview>>]_vars

\* A submission failed: the toast is up and the dialog still holds the
\* comment.
C18_FailedReviewShown ==
  /\ toast = ToastReviewFailed
  /\ revError = ErrAddReview
  /\ isReviewDialogOpen
  /\ canReview
  /\ ~TooShort(reviewForm.comment)
  /\ ~navPending

----------------------------------------------------------------------------
\* Properties of the order summary.

----------------------------------------------------------------------------
\* Properties of AuthProvider.

\* C22: in every state of a page that is not about to reload, a non-null
\* user implies that an authToken is stored.
C22_UserHasToken == (user # NoUser /\ ~navPending) => authToken # NoToken

====
